---- MODULE Spec2Model ----
(***************************************************************************)
(* Smart-links guided tour engine: sequentialHighlights, the element       *)
(* lookups with polling, the highlight/popup presenter, the click, type    *)
(* and scroll synthesizers, the two walkthrough scripts and the entry      *)
(* point.  Time is in milliseconds.  The event loop is single threaded:    *)
(* the sequencer runs to its next timer await before any timer callback,   *)
(* user click or host-page rendering is handled.                           *)
(***************************************************************************)
EXTENDS Integers, Sequences, FiniteSets

VARIABLES
    page,          \* the host document: elements in document order (static part)
    present,       \* present[e]: element e is attached to the document
    marked,        \* marked[e]: e carries the class smart-link-highlight
    value,         \* value[e]: the value of an input or textarea
    focused,       \* the focused element, or Null
    decos,         \* every decoration created so far, in creation order
    timers,        \* pending setTimeout callbacks, in scheduling order
    now,           \* Date.now()
    steps,         \* the step list given to sequentialHighlights
    defaultDelay,  \* the defaultDelay given to sequentialHighlights
    i,             \* the loop index of sequentialHighlights (1-based)
    pc,            \* the position of the async call chain
    startTime,     \* startTime of the running polling loop
    el,            \* the element variable of the running lookup
    ti,            \* the index of the next character typeTextAsync appends
    events,        \* the side effects performed so far, in order
    smartLinkId,   \* urlParams.get('smartlink'), read at module load
    walkthrough,   \* the walkthrough the entry point has started
    lag,           \* how late the event loop runs a due timer callback
    envLeft        \* user clicks and host-page renderings still to come

\* what is fixed when the page loads
host == <<page, smartLinkId, lag>>

\* the arguments of the running sequentialHighlights call
call == <<steps, defaultDelay, walkthrough>>

vars == <<host, call, present, marked, value, focused, decos, timers, now, i,
          pc, startTime, el, ti, events, envLeft>>

----------------------------------------------------------------------------
(* Bounds of the model *)

MaxSteps == 2
MaxLag == 300
MaxEnv == 1
MaxElems == 3

(* Program constants *)

PollInterval == 100
HighlightMaxWait == 5000
ClickMaxWait == 2000
ClickByTextMaxWait == 5000
TypeMaxWait == 5000
ScrollMaxWait == 5000
CompletionBuffer == 100
SmoothSettle == 500
AutoSettle == 100
TypingSpeed == 50
WalkthroughDelay == 500
EntrySettle == 500

Null == 0
Undef == "undefined"
UndefNum == -1

----------------------------------------------------------------------------
(* Values *)

Max(a, b) == IF a >= b THEN a ELSE b

Truthy(s) == s # Undef /\ s # ""

Elements == 1..Len(page)

\* a typist that takes any element for a text field
IsTextInputAny(e) == TRUE

IsTextInput(e) == page[e].tag \in {"input", "textarea"}

\* text.includes(needle)
Includes(hay, needle) ==
    \E k \in 0..(Len(hay) - Len(needle)) :
        SubSeq(hay, k + 1, k + Len(needle)) = needle

\* document.querySelector(selector): the first match in document order
querySelector(selector) ==
    LET hits == {e \in Elements : present[e] /\ selector \in page[e].sels}
    IN  IF hits = {} THEN Null ELSE CHOOSE e \in hits : \A f \in hits : e <= f

\* a matcher that knows the exact mode only
TextMatchesExact(e, text, exactMatch) == page[e].text = text

TextMatches(e, text, exactMatch) ==
    IF exactMatch THEN page[e].text = text ELSE Includes(page[e].text, text)

RECURSIVE ScanByText(_, _, _, _)
ScanByText(k, tagName, text, exactMatch) ==
    IF k > Len(page) THEN Null
    ELSE IF present[k] /\ page[k].tag = tagName /\ TextMatches(k, text, exactMatch)
         THEN k
         ELSE ScanByText(k + 1, tagName, text, exactMatch)

findElementByText(tagName, text, exactMatch) ==
    ScanByText(1, tagName, text, exactMatch)

----------------------------------------------------------------------------
(* Steps and the step creators *)

NoAction ==
    [kind |-> "none", selector |-> Undef, tagName |-> Undef, text |-> <<>>,
     exactMatch |-> FALSE, waitForElement |-> FALSE, maxWaitTime |-> 0,
     popupText |-> Undef, durationMs |-> 0, typingSpeed |-> 0,
     clearExisting |-> FALSE, behavior |-> Undef]

\* a plain highlight step { selector, text, duration }
HighlightStep(selector, text, duration) ==
    [selector |-> selector, text |-> text, duration |-> duration,
     action |-> NoAction, delayAfter |-> UndefNum]

ActionStep(action) ==
    [selector |-> Undef, text |-> Undef, duration |-> UndefNum,
     action |-> action, delayAfter |-> UndefNum]

createClickStep(selector, waitForElement, maxWaitTime) ==
    ActionStep([NoAction EXCEPT !.kind = "click", !.selector = selector,
                    !.waitForElement = waitForElement,
                    !.maxWaitTime = maxWaitTime])

createClickByTextStep(tagName, text, exactMatch, waitForElement, maxWaitTime) ==
    ActionStep([NoAction EXCEPT !.kind = "clickByText", !.tagName = tagName,
                    !.text = text, !.exactMatch = exactMatch,
                    !.waitForElement = waitForElement,
                    !.maxWaitTime = maxWaitTime])

createHighlightByTextStep(tagName, searchText, popupText, durationMs, exactMatch) ==
    ActionStep([NoAction EXCEPT !.kind = "highlightByText",
                    !.tagName = tagName, !.text = searchText,
                    !.popupText = popupText, !.durationMs = durationMs,
                    !.exactMatch = exactMatch])

\* createTypeTextStep leaves waitForElement and maxWaitTime at typeTextAsync's defaults
createTypeTextStep(selector, text, typingSpeed, clearExisting) ==
    ActionStep([NoAction EXCEPT !.kind = "typeText", !.selector = selector,
                    !.text = text, !.typingSpeed = typingSpeed,
                    !.clearExisting = clearExisting,
                    !.waitForElement = TRUE, !.maxWaitTime = TypeMaxWait])

\* createScrollToStep leaves waitForElement and maxWaitTime at scrollToElementAsync's defaults
createScrollToStep(selector, behavior) ==
    ActionStep([NoAction EXCEPT !.kind = "scrollTo", !.selector = selector,
                    !.behavior = behavior,
                    !.waitForElement = TRUE, !.maxWaitTime = ScrollMaxWait])

createScrollToTextStep(tagName, searchText, exactMatch, behavior) ==
    ActionStep([NoAction EXCEPT !.kind = "scrollToText", !.tagName = tagName,
                    !.text = searchText, !.exactMatch = exactMatch,
                    !.behavior = behavior])

WithDelay(step, delayAfter) == [step EXCEPT !.delayAfter = delayAfter]

\* a step that carries a highlight and the action of an action step
WithAction(step, actionStep) == [step EXCEPT !.action = actionStep.action]

Step == steps[i]

IsHighlight(step) == Truthy(step.selector) /\ Truthy(step.text)

\* step.duration || 0
DurationOf(step) == IF step.duration = UndefNum THEN 0 ELSE step.duration

\* the lookup a lookup action performs once
Locate(a) ==
    IF a.kind \in {"clickByText", "highlightByText", "scrollToText"}
    THEN findElementByText(a.tagName, a.text, a.exactMatch)
    ELSE querySelector(a.selector)

----------------------------------------------------------------------------
(* Timers *)

\* setTimeout(callback, delay): callbacks run in order of due time, and in
\* scheduling order among equal due times
Timer(t, kind, delay, step, deco) ==
    [due |-> t + delay, kind |-> kind, step |-> step, deco |-> deco]

HeadIdx ==
    CHOOSE h \in 1..Len(timers) :
        \A k \in 1..Len(timers) :
            timers[h].due < timers[k].due \/ (timers[h].due = timers[k].due /\ h <= k)

NextTimer == timers[HeadIdx]

OtherTimers == [k \in 1..(Len(timers) - 1) |->
            IF k < HeadIdx THEN timers[k] ELSE timers[k + 1]]

\* the async chain is parked on a timer, or has ended
Suspended ==
    pc \in {"settle", "hlSleep", "hlWait", "actSleep", "hbtWait", "typeSleep",
            "scrollWait", "delaySleep", "done", "finished"}

\* when the next callback runs: no earlier than its due time
FireTime == Max(now, NextTimer.due + lag)

Due(kind) == Suspended /\ timers # <<>> /\ NextTimer.kind = kind

\* a side effect or a console message of step n at time t
\* (data: the value of the element, or the window of a polling lookup)
Event(n, kind, e, t, data) ==
    [step |-> n, kind |-> kind, el |-> e, at |-> t, data |-> data]

Log(kind, e) == Append(events, Event(i, kind, e, now, <<>>))

----------------------------------------------------------------------------
(* Decorations *)

Decoration(e, via, dur) ==
    [target |-> e, step |-> i, via |-> via, dur |-> dur, at |-> now,
     attached |-> TRUE, removedBy |-> "none", again |-> FALSE,
     changed |-> FALSE, clicks |-> 0, clicksOn |-> 0]

\* invocation of decoration d's removal closure by who, leaving the marker
\* classes m: the popup is detached.  The record notes the first remover,
\* whether this was a second invocation, and whether a second invocation
\* changed what its event leaves behind (in a click event the listeners of
\* the later decorations of the element run after it and take the class off
\* themselves), and how many clicks invoked the closure.
Removal(dom, d, who, m) ==
    LET second == dom.ds[d].removedBy # "none"
        last == \/ who = "timer"
                \/ \A d2 \in 1..Len(dom.ds) :
                       d2 > d => dom.ds[d2].target # dom.ds[d].target
    IN  [m  |-> m,
         ds |-> [dom.ds EXCEPT
                    ![d].attached = FALSE,
                    ![d].removedBy = IF second THEN @ ELSE who,
                    ![d].again = @ \/ second,
                    ![d].clicks = IF who = "click" THEN @ + 1 ELSE @,
                    ![d].changed = @ \/ (second /\ (dom.ds[d].attached
                                                     \/ (last /\ m # dom.m)))]]

\* a removal that detaches the popup and leaves the class
removePopupOnly(dom, d, who) == Removal(dom, d, who, dom.m)

\* a removal that toggles the class
removeToggling(dom, d, who) ==
    Removal(dom, d, who,
            [dom.m EXCEPT ![dom.ds[d].target] = ~dom.m[dom.ds[d].target]])

\* removeHighlightAndPopup of decoration d, on the DOM state dom = [m, ds]:
\* classList.remove and popup.remove()
removeHighlightAndPopup(dom, d, who) ==
    Removal(dom, d, who, [dom.m EXCEPT ![dom.ds[d].target] = FALSE])

\* a click event that skips the listeners a click has invoked before
RECURSIVE RunListenersOnce(_, _, _)
RunListenersOnce(dom, e, d) ==
    IF d > Len(dom.ds) THEN dom
    ELSE IF dom.ds[d].target = e /\ dom.ds[d].clicks = 0
         THEN RunListenersOnce(removeHighlightAndPopup(dom, d, "click"), e, d + 1)
         ELSE RunListenersOnce(dom, e, d + 1)

\* the click event on e: every listener registered on e, in registration
\* order (addEventListener without once, and never removed)
RECURSIVE RunListeners(_, _, _)
RunListeners(dom, e, d) ==
    IF d > Len(dom.ds) THEN dom
    ELSE IF dom.ds[d].target = e
         THEN RunListeners(removeHighlightAndPopup(dom, d, "click"), e, d + 1)
         ELSE RunListeners(dom, e, d + 1)

\* a click is dispatched on e: the decorations of e note it
Clicked(dom, e) ==
    [dom EXCEPT !.ds = [d \in 1..Len(dom.ds) |->
                           IF dom.ds[d].target = e
                           THEN [dom.ds[d] EXCEPT !.clicksOn = @ + 1]
                           ELSE dom.ds[d]]]

DispatchClick(e) ==
    RunListeners(Clicked([m |-> marked, ds |-> decos], e), e, 1)

----------------------------------------------------------------------------
(* sequentialHighlights *)

\* for (let i = 0; i < steps.length; i++): the next step begins
StepBegin ==
    /\ pc = "for"
    /\ i <= Len(steps)
    /\ events' = Log("begin", Null)
    /\ pc' = IF IsHighlight(Step) THEN "hlPoll" ELSE "action"
    /\ UNCHANGED <<host, call, present, marked, value, focused, decos, timers,
                   now, i, startTime, el, ti, envLeft>>

\* the loop ends and the promise of sequentialHighlights resolves
SequenceDone ==
    /\ pc = "for"
    /\ i > Len(steps)
    /\ pc' = "done"
    /\ events' = Log("resolve", Null)
    /\ UNCHANGED <<host, call, present, marked, value, focused, decos, timers,
                   now, i, startTime, el, ti, envLeft>>

\* a sequencer that stops at the first highlight that fails
AfterHighlightBreak(success) == IF success THEN "action" ELSE "done"

\* a sequencer that stops at the first step that fails
AfterActionBreak(success) == IF success THEN "delay" ELSE "done"

\* a sequencer that takes a step for a highlight or for an action
AfterHighlightOnly(success) == "delay"

\* a sequencer whose highlight is parked until somebody resumes it
AfterHighlightAwaitsClick(success) == "hlWait"

\* await highlightElementWithPopupAsync(...): the result is not looked at
AfterHighlight(success) == "action"

\* await Promise.resolve(step.action()): the result is not looked at
AfterAction(success) == "delay"

\* a polling loop that looks once and then only sleeps
PollTurnOnce(t0, t, maxWaitTime, q) ==
    IF t - t0 < maxWaitTime
    THEN IF q # Null /\ t = t0 THEN "found" ELSE "sleep"
    ELSE "timeout"

\* a polling loop that gives up one interval early
PollTurnEarly(t0, t, maxWaitTime, q) ==
    IF t - t0 < maxWaitTime - PollInterval
    THEN IF q = Null THEN "sleep" ELSE "found"
    ELSE "timeout"

\* one evaluation of a polling loop that began at time t0, at time t, q being
\* what the lookup returns:
\*   while (!element && Date.now() - startTime < maxWaitTime)
\*     { element = lookup; if (!element) await sleep(100) }
PollTurn(t0, t, maxWaitTime, q) ==
    IF t - t0 < maxWaitTime
    THEN IF q = Null THEN "sleep" ELSE "found"
    ELSE "timeout"

\* highlightElementWithPopup (waitForElement and maxWaitTime at their
\* defaults): startTime and the first turn of the polling loop
HighlightPoll ==
    /\ pc = "hlPoll"
    /\ startTime' = now
    /\ LET q == querySelector(Step.selector)
           turn == PollTurn(now, now, HighlightMaxWait, q)
       IN  /\ el' = IF turn = "found" THEN q ELSE Null
           /\ timers' = IF turn = "sleep"
                        THEN Append(timers, Timer(now, "poll", PollInterval, i, 0))
                        ELSE timers
           /\ pc' = CASE turn = "sleep" -> "hlSleep"
                      [] turn = "found" -> "hlApply"
                      [] OTHER -> "hlNone"
    /\ events' = Append(events, Event(i, "lookup", Null, now, <<HighlightMaxWait>>))
    /\ UNCHANGED <<host, call, present, marked, value, focused, decos, now, i,
                   ti, envLeft>>

\* if (!targetElement) return false, and highlightElementWithPopupAsync
\* returns false as well
HighlightNotFound ==
    /\ pc = "hlNone"
    /\ events' = Log("notFound", Null)
    /\ pc' = AfterHighlight(FALSE)
    /\ UNCHANGED <<host, call, present, marked, value, focused, decos, timers,
                   now, i, startTime, el, ti, envLeft>>

\* a presenter that takes the buffer off the duration
HighlightWaitShort(durationMs) == durationMs - CompletionBuffer

\* a presenter that resolves at once
HighlightWaitNone(durationMs) == 0

\* a presenter that waits for the buffer only
HighlightWaitFlat(durationMs) == CompletionBuffer

\* a presenter that waits for half the duration
HighlightWaitHalved(durationMs) == durationMs \div 2

\* how long highlightElementWithPopupAsync waits before it resolves
HighlightWait(durationMs) == durationMs + CompletionBuffer

\* highlightElementWithPopup with the element found: class, popup, click
\* listener and removal timer; then highlightElementWithPopupAsync's wait
HighlightApply ==
    /\ pc = "hlApply"
    /\ LET D == DurationOf(Step)
           d == Len(decos) + 1
       IN  /\ marked' = [marked EXCEPT ![el] = TRUE]
           /\ decos' = Append(decos, Decoration(el, "selector", D))
           /\ events' = Log("decorate", el)
           /\ IF D > 0
              THEN /\ timers' = timers \o <<Timer(now, "remove", D, i, d),
                                            Timer(now, "hlwait", HighlightWait(D), i, d)>>
                   /\ pc' = "hlWait"
              ELSE /\ pc' = AfterHighlight(TRUE)
                   /\ UNCHANGED timers
    /\ UNCHANGED <<host, call, present, value, focused, now, i, startTime, el,
                   ti, envLeft>>

\* the setTimeout(resolve, 100) of a polling loop fires and the loop takes
\* its next turn
PollWake ==
    /\ Due("poll")
    /\ now' = FireTime
    /\ LET hl == pc = "hlSleep"
           q == IF hl THEN querySelector(Step.selector) ELSE Locate(Step.action)
           W == IF hl THEN HighlightMaxWait ELSE Step.action.maxWaitTime
           turn == PollTurn(startTime, FireTime, W, q)
       IN  /\ el' = IF turn = "found" THEN q ELSE Null
           /\ timers' = IF turn = "sleep"
                        THEN Append(OtherTimers,
                                    Timer(FireTime, "poll", PollInterval, i, 0))
                        ELSE OtherTimers
           /\ pc' = CASE turn = "sleep" -> pc
                      [] turn = "found" -> IF hl THEN "hlApply" ELSE "actGot"
                      [] OTHER -> IF hl THEN "hlNone" ELSE "actGot"
    /\ UNCHANGED <<host, call, present, marked, value, focused, decos, i,
                   startTime, ti, events, envLeft>>

\* setTimeout(removeHighlightAndPopup, durationMs) fires
RemoveTimer ==
    /\ Due("remove")
    /\ now' = FireTime
    /\ timers' = OtherTimers
    /\ LET dom == removeHighlightAndPopup([m |-> marked, ds |-> decos],
                                          NextTimer.deco, "timer")
       IN  /\ marked' = dom.m
           /\ decos' = dom.ds
    /\ events' = Append(events, Event(NextTimer.step, "undecorate",
                                      decos[NextTimer.deco].target, FireTime, <<>>))
    /\ UNCHANGED <<host, call, present, value, focused, i, pc, startTime, el,
                   ti, envLeft>>

\* the durationMs + 100 timer of highlightElementWithPopupAsync fires
HighlightWaitDone ==
    /\ Due("hlwait")
    /\ now' = FireTime
    /\ timers' = OtherTimers
    /\ pc' = AfterHighlight(TRUE)
    /\ events' = Append(events, Event(i, "highlighted", el, FireTime, <<>>))
    /\ UNCHANGED <<host, call, present, marked, value, focused, decos, i,
                   startTime, el, ti, envLeft>>

\* if (step.action) is false
ActionSkip ==
    /\ pc = "action"
    /\ Step.action.kind = "none"
    /\ pc' = "delay"
    /\ UNCHANGED <<host, call, present, marked, value, focused, decos, timers,
                   now, i, startTime, el, ti, events, envLeft>>

\* the action of a click, click-by-text, type-text or scroll step: startTime
\* and the first turn of its polling loop, or its single lookup
LookupBegin ==
    /\ pc = "action"
    /\ Step.action.kind \in {"click", "clickByText", "typeText", "scrollTo"}
    /\ LET q == Locate(Step.action)
           turn == IF Step.action.waitForElement
                   THEN PollTurn(now, now, Step.action.maxWaitTime, q)
                   ELSE IF q = Null THEN "timeout" ELSE "found"
       IN  /\ el' = IF turn = "found" THEN q ELSE Null
           /\ timers' = IF turn = "sleep"
                        THEN Append(timers, Timer(now, "poll", PollInterval, i, 0))
                        ELSE timers
           /\ pc' = IF turn = "sleep" THEN "actSleep" ELSE "actGot"
    /\ startTime' = IF Step.action.waitForElement THEN now ELSE startTime
    /\ events' = Append(events, Event(i, "lookup", Null, now,
                                      IF Step.action.waitForElement
                                      THEN <<Step.action.maxWaitTime>> ELSE <<>>))
    /\ UNCHANGED <<host, call, present, marked, value, focused, decos, now, i,
                   ti, envLeft>>

\* createClickStep / createClickByTextStep: element.click(), or the warning
ClickAct ==
    /\ pc = "actGot"
    /\ Step.action.kind \in {"click", "clickByText"}
    /\ IF el # Null
       THEN LET dom == DispatchClick(el)
            IN  /\ marked' = dom.m
                /\ decos' = dom.ds
                /\ events' = Log("click", el)
       ELSE /\ events' = Log("notFound", Null)
            /\ UNCHANGED <<marked, decos>>
    /\ pc' = AfterAction(el # Null)
    /\ UNCHANGED <<host, call, present, value, focused, timers, now, i,
                   startTime, el, ti, envLeft>>

\* a typist that never clears
ClearedNever(v, clearExisting) == v

\* if (clearExisting) element.value = ''
Cleared(v, clearExisting) == IF clearExisting THEN <<>> ELSE v

\* typeTextAsync after its lookup: not found, wrong element type, or focus
\* and clear
TypeBegin ==
    /\ pc = "actGot"
    /\ Step.action.kind = "typeText"
    /\ IF el = Null
       THEN /\ events' = Log("notFound", Null)
            /\ pc' = AfterAction(FALSE)
            /\ UNCHANGED <<focused, value, ti>>
       ELSE IF ~IsTextInput(el)
       THEN /\ events' = Log("wrongType", el)
            /\ pc' = AfterAction(FALSE)
            /\ UNCHANGED <<focused, value, ti>>
       ELSE /\ focused' = el
            /\ value' = [value EXCEPT ![el] = Cleared(@, Step.action.clearExisting)]
            /\ events' = Log("focus", el)
            /\ ti' = 1
            /\ pc' = "typeLoop"
    /\ UNCHANGED <<host, call, present, marked, decos, timers, now, i,
                   startTime, el, envLeft>>

\* a typist that repeats the first character
TypedFirst(v, text, k) == Append(v, text[1])

\* element.value += text[i]
Typed(v, text, k) == Append(v, text[k])

\* one turn of the typing loop: append, input event, typing delay
TypeChar ==
    /\ pc = "typeLoop"
    /\ ti <= Len(Step.action.text)
    /\ LET v == Typed(value[el], Step.action.text, ti)
       IN  /\ value' = [value EXCEPT ![el] = v]
           /\ events' = Append(events, Event(i, "input", el, now, v))
    /\ timers' = Append(timers, Timer(now, "type", Step.action.typingSpeed, i, 0))
    /\ ti' = ti + 1
    /\ pc' = "typeSleep"
    /\ UNCHANGED <<host, call, present, marked, focused, decos, now, i,
                   startTime, el, envLeft>>

\* the typing delay is over
TypeWake ==
    /\ Due("type")
    /\ now' = FireTime
    /\ timers' = OtherTimers
    /\ pc' = "typeLoop"
    /\ UNCHANGED <<host, call, present, marked, value, focused, decos, i,
                   startTime, el, ti, events, envLeft>>

\* after the typing loop: the final change event, return true
TypeChange ==
    /\ pc = "typeLoop"
    /\ ti > Len(Step.action.text)
    /\ events' = Append(events, Event(i, "change", el, now, value[el]))
    /\ pc' = AfterAction(TRUE)
    /\ UNCHANGED <<host, call, present, marked, value, focused, decos, timers,
                   now, i, startTime, el, ti, envLeft>>

\* the settle delay of scrollToElementAsync
SettleDelay(behavior) == IF behavior = "smooth" THEN SmoothSettle ELSE AutoSettle

\* scrollToElementAsync after its lookup: not found, or scrollIntoView and
\* the settle delay
ScrollAct ==
    /\ pc = "actGot"
    /\ Step.action.kind = "scrollTo"
    /\ IF el = Null
       THEN /\ events' = Log("notFound", Null)
            /\ pc' = AfterAction(FALSE)
            /\ UNCHANGED timers
       ELSE /\ events' = Log("scroll", el)
            /\ timers' = Append(timers, Timer(now, "scroll",
                                              SettleDelay(Step.action.behavior), i, 0))
            /\ pc' = "scrollWait"
    /\ UNCHANGED <<host, call, present, marked, value, focused, decos, now, i,
                   startTime, el, ti, envLeft>>

\* createScrollToTextStep: one findElementByText, then scrollToElementAsync
\* on the element, or the warning
ScrollToText ==
    /\ pc = "action"
    /\ Step.action.kind = "scrollToText"
    /\ LET q == Locate(Step.action)
       IN  /\ el' = q
           /\ IF q = Null
              THEN /\ events' = events \o <<Event(i, "lookup", Null, now, <<>>),
                                            Event(i, "notFound", Null, now, <<>>)>>
                   /\ pc' = AfterAction(FALSE)
                   /\ UNCHANGED timers
              ELSE /\ events' = events \o <<Event(i, "lookup", Null, now, <<>>),
                                            Event(i, "scroll", q, now, <<>>)>>
                   /\ timers' = Append(timers, Timer(now, "scroll",
                                                     SettleDelay(Step.action.behavior), i, 0))
                   /\ pc' = "scrollWait"
    /\ UNCHANGED <<host, call, present, marked, value, focused, decos, now, i,
                   startTime, ti, envLeft>>

\* the settle delay is over: scrollToElementAsync returns true
ScrollSettled ==
    /\ Due("scroll")
    /\ now' = FireTime
    /\ timers' = OtherTimers
    /\ pc' = AfterAction(TRUE)
    /\ UNCHANGED <<host, call, present, marked, value, focused, decos, i,
                   startTime, el, ti, events, envLeft>>

\* highlightElementByTextAsync: one findElementByText; class, popup and
\* click listener; with a duration the promise resolves in the timer
HighlightByText ==
    /\ pc = "action"
    /\ Step.action.kind = "highlightByText"
    /\ LET q == Locate(Step.action)
           D == Step.action.durationMs
           d == Len(decos) + 1
       IN  /\ el' = q
           /\ IF q = Null
              THEN /\ events' = events \o <<Event(i, "lookup", Null, now, <<>>),
                                            Event(i, "notFound", Null, now, <<>>)>>
                   /\ pc' = AfterAction(FALSE)
                   /\ UNCHANGED <<marked, decos, timers>>
              ELSE /\ marked' = [marked EXCEPT ![q] = TRUE]
                   /\ decos' = Append(decos, Decoration(q, "text", D))
                   /\ events' = events \o <<Event(i, "lookup", Null, now, <<>>),
                                            Event(i, "decorate", q, now, <<>>)>>
                   /\ IF D > 0
                      THEN /\ timers' = Append(timers, Timer(now, "hbt", D, i, d))
                           /\ pc' = "hbtWait"
                      ELSE /\ pc' = AfterAction(TRUE)
                           /\ UNCHANGED timers
    /\ UNCHANGED <<host, call, present, value, focused, now, i, startTime, ti,
                   envLeft>>

\* the duration timer of highlightElementByTextAsync fires: removal, then
\* resolve(true)
HighlightByTextTimer ==
    /\ Due("hbt")
    /\ now' = FireTime
    /\ timers' = OtherTimers
    /\ LET dom == removeHighlightAndPopup([m |-> marked, ds |-> decos],
                                          NextTimer.deco, "timer")
       IN  /\ marked' = dom.m
           /\ decos' = dom.ds
    /\ events' = events \o
           <<Event(NextTimer.step, "undecorate", decos[NextTimer.deco].target,
                   FireTime, <<>>),
             Event(i, "highlightedText", el, FireTime, <<>>)>>
    /\ pc' = AfterAction(TRUE)
    /\ UNCHANGED <<host, call, present, value, focused, i, startTime, el, ti,
                   envLeft>>

\* a sequencer that knows the default delay only
DelayOfDefault(step) == defaultDelay

\* step.delayAfter !== undefined ? step.delayAfter : defaultDelay
DelayOf(step) ==
    IF step.delayAfter # UndefNum THEN step.delayAfter ELSE defaultDelay

\* the end of the loop body: the delay after every step but the last
StepDelay ==
    /\ pc = "delay"
    /\ events' = Log("end", Null)
    /\ IF i < Len(steps) /\ DelayOf(Step) > 0
       THEN /\ timers' = Append(timers, Timer(now, "delay", DelayOf(Step), i, 0))
            /\ pc' = "delaySleep"
            /\ UNCHANGED i
       ELSE /\ i' = i + 1
            /\ pc' = "for"
            /\ UNCHANGED timers
    /\ UNCHANGED <<host, call, present, marked, value, focused, decos, now,
                   startTime, el, ti, envLeft>>

\* the delay between two steps is over
DelayDone ==
    /\ Due("delay")
    /\ now' = FireTime
    /\ timers' = OtherTimers
    /\ i' = i + 1
    /\ pc' = "for"
    /\ UNCHANGED <<host, call, present, marked, value, focused, decos,
                   startTime, el, ti, events, envLeft>>

----------------------------------------------------------------------------
(* The environment: the user and the host page *)

\* the user clicks element e: its click listeners run
UserClick(e) ==
    /\ Suspended
    /\ envLeft > 0
    /\ present[e]
    /\ \E d \in 1..Len(decos) : decos[d].target = e
    /\ LET dom == DispatchClick(e)
       IN  /\ marked' = dom.m
           /\ decos' = dom.ds
    /\ envLeft' = envLeft - 1
    /\ UNCHANGED <<host, call, present, value, focused, timers, now, i, pc,
                   startTime, el, ti, events>>

\* the host page renders element e
HostRender(e) ==
    /\ Suspended
    /\ envLeft > 0
    /\ ~present[e]
    /\ present' = [present EXCEPT ![e] = TRUE]
    /\ envLeft' = envLeft - 1
    /\ UNCHANGED <<host, call, marked, value, focused, decos, timers, now, i,
                   pc, startTime, el, ti, events>>

\* the steps of the program
Steps ==
    \/ StepBegin
    \/ SequenceDone
    \/ HighlightPoll
    \/ HighlightNotFound
    \/ HighlightApply
    \/ PollWake
    \/ RemoveTimer
    \/ HighlightWaitDone
    \/ ActionSkip
    \/ LookupBegin
    \/ ClickAct
    \/ TypeBegin
    \/ TypeChar
    \/ TypeWake
    \/ TypeChange
    \/ ScrollAct
    \/ ScrollToText
    \/ ScrollSettled
    \/ HighlightByText
    \/ HighlightByTextTimer
    \/ StepDelay
    \/ DelayDone

----------------------------------------------------------------------------
(* sequentialHighlights called on a drawn step list and page *)

TestPage ==
    << [tag |-> "p",        sels |-> {".a"},       text |-> <<"O", "K">>],
       [tag |-> "textarea", sels |-> {".a", ".t"}, text |-> <<>>] >>

StepPool ==
    { HighlightStep(".a", "tip", 300),
      HighlightStep(".a", "tip", UndefNum),
      createClickStep(".a", TRUE, 250),
      createClickStep(".a", TRUE, 0),
      createClickByTextStep("p", <<"O", "K">>, FALSE, FALSE, 0),
      createHighlightByTextStep("p", <<"O", "K">>, "tip", 300, FALSE),
      createTypeTextStep(".a", <<"h", "i">>, 50, TRUE),
      createTypeTextStep(".t", <<"h", "i">>, 50, FALSE),
      WithDelay(createScrollToStep(".t", "smooth"), 0),
      WithDelay(createScrollToTextStep("p", <<"O", "K">>, TRUE, "auto"), 200),
      WithAction(HighlightStep(".t", "tip", 300), createClickStep(".a", TRUE, 250)) }

StepLists ==
    UNION { [1..n -> StepPool] : n \in 1..MaxSteps }

Init ==
    /\ page = TestPage
    /\ present \in [1..Len(TestPage) -> BOOLEAN]
    /\ marked = [e \in 1..Len(TestPage) |-> FALSE]
    /\ value = [e \in 1..Len(TestPage) |-> <<"z">>]
    /\ focused = Null
    /\ decos = <<>>
    /\ timers = <<>>
    /\ now = 0
    /\ steps \in StepLists
    /\ defaultDelay \in {0, 500}
    /\ i = 1
    /\ pc = "for"
    /\ startTime = 0
    /\ el = Null
    /\ ti = 1
    /\ events = <<>>
    /\ smartLinkId = Undef
    /\ walkthrough = "none"
    /\ lag \in {0, MaxLag}
    /\ envLeft = MaxEnv

Next ==
    \/ Steps
    \/ \E e \in Elements : UserClick(e)
    \/ \E e \in Elements : HostRender(e)

Spec == Init /\ [][Next]_vars

\* the event loop is fair: a callback that is due, or a continuation of the
\* async chain that is ready, is eventually run; nothing is assumed of the
\* user or of the host page
FairSpec == Spec /\ WF_vars(Steps)

----------------------------------------------------------------------------
(* The walkthrough scripts and the entry point *)

TextBilling == <<"B", "i", "l", "l", "i", "n", "g">>
TextApiPlayground ==
    <<"A", "P", "I", " ", "P", "l", "a", "y", "g", "r", "o", "u", "n", "d">>
TextSearch == <<"S", "e", "a", "r", "c", "h">>
TextExtract == <<"E", "x", "t", "r", "a", "c", "t">>
TextCrawl == <<"C", "r", "a", "w", "l">>
TextAdditionalFields ==
    <<"A", "d", "d", "i", "t", "i", "o", "n", "a", "l", " ",
      "f", "i", "e", "l", "d", "s">>
TextIncludeImages ==
    <<"I", "n", "c", "l", "u", "d", "e", " ", "i", "m", "a", "g", "e", "s">>
TextResponse == <<"R", "e", "s", "p", "o", "n", "s", "e">>

\* "What is the capital of France?"
TypedQuestion ==
    <<"W", "h", "a", "t", " ", "i", "s", " ", "t", "h", "e", " ",
      "c", "a", "p", "i", "t", "a", "l", " ", "o", "f", " ",
      "F", "r", "a", "n", "c", "e", "?">>

\* the elements of the host application the two scripts address
HostPage ==
    << [tag |-> "button", sels |-> {".chakra-button.css-gaydkc"},
        text |-> <<>>],
       [tag |-> "label", sels |-> {".chakra-radio__label.css-14iyyou"},
        text |-> <<>>],
       [tag |-> "button", sels |-> {".chakra-button.css-1ux6ti9"},
        text |-> <<>>],
       [tag |-> "p", sels |-> {},
        text |-> TextBilling],
       [tag |-> "h2", sels |-> {".chakra-heading.css-edjpho"},
        text |-> <<>>],
       [tag |-> "label", sels |-> {".chakra-switch.css-xqg94v"},
        text |-> <<>>],
       [tag |-> "button", sels |-> {".chakra-button.css-g6s2cd"},
        text |-> <<>>],
       [tag |-> "p", sels |-> {},
        text |-> TextApiPlayground],
       [tag |-> "p", sels |-> {},
        text |-> TextSearch],
       [tag |-> "p", sels |-> {},
        text |-> TextExtract],
       [tag |-> "p", sels |-> {},
        text |-> TextCrawl],
       [tag |-> "select", sels |-> {".chakra-select.css-4nt0n4"},
        text |-> <<>>],
       [tag |-> "textarea", sels |-> {".chakra-textarea.css-1bp0xr6"},
        text |-> <<>>],
       [tag |-> "p", sels |-> {},
        text |-> TextAdditionalFields],
       [tag |-> "span", sels |-> {},
        text |-> TextIncludeImages],
       [tag |-> "input", sels |-> {".chakra-checkbox__input"},
        text |-> <<>>],
       [tag |-> "button", sels |-> {".chakra-button.css-1tci97j"},
        text |-> <<>>],
       [tag |-> "p", sels |-> {},
        text |-> TextResponse] >>

upgradeAndProductionKey ==
    << HighlightStep(".chakra-button.css-gaydkc", "add a new API key", 4000),
       createClickStep(".chakra-button.css-gaydkc", TRUE, ClickMaxWait),
       HighlightStep(".chakra-radio__label.css-14iyyou", "production key", 7000),
       createClickStep(".chakra-button.css-1ux6ti9", TRUE, ClickMaxWait),
       createHighlightByTextStep("p", TextBilling, "visit the billing page", 4000, FALSE),
       createClickByTextStep("p", TextBilling, FALSE, TRUE, ClickByTextMaxWait),
       HighlightStep(".chakra-heading.css-edjpho", "activate PAYGO", 4000),
       createClickStep(".chakra-switch.css-xqg94v", TRUE, ClickMaxWait),
       HighlightStep(".chakra-button.css-g6s2cd", "payment information", 4000),
       createClickStep(".chakra-button.css-g6s2cd", TRUE, ClickMaxWait) >>

apiPlayground ==
    << createHighlightByTextStep("p", TextApiPlayground, "the API Playground", 4000, FALSE),
       createClickByTextStep("p", TextApiPlayground, FALSE, TRUE, ClickByTextMaxWait),
       createHighlightByTextStep("p", TextSearch, "the Search endpoint", 8000, FALSE),
       createClickByTextStep("p", TextExtract, FALSE, TRUE, ClickByTextMaxWait),
       createHighlightByTextStep("p", TextExtract, "the Extract endpoint", 8000, FALSE),
       createClickByTextStep("p", TextCrawl, FALSE, TRUE, ClickByTextMaxWait),
       createHighlightByTextStep("p", TextCrawl, "the Crawl endpoint", 8000, FALSE),
       createClickByTextStep("p", TextSearch, FALSE, TRUE, ClickByTextMaxWait),
       createHighlightByTextStep("p", TextSearch, "let us try it out", 5000, FALSE),
       HighlightStep(".chakra-select.css-4nt0n4", "default API key", 3000),
       HighlightStep(".chakra-textarea.css-1bp0xr6", "search for something", 3000),
       createTypeTextStep(".chakra-textarea.css-1bp0xr6", TypedQuestion, TypingSpeed, TRUE),
       createHighlightByTextStep("p", TextAdditionalFields, "additional fields", 3000, FALSE),
       createClickByTextStep("p", TextAdditionalFields, FALSE, TRUE, ClickByTextMaxWait),
       createHighlightByTextStep("span", TextIncludeImages, "include images", 3000, FALSE),
       createClickStep(".chakra-checkbox__input", TRUE, ClickMaxWait),
       createScrollToStep(".chakra-button.css-1tci97j", "smooth"),
       HighlightStep(".chakra-button.css-1tci97j", "execute the request", 5000),
       createClickStep(".chakra-button.css-1tci97j", TRUE, ClickMaxWait),
       createScrollToTextStep("p", TextResponse, FALSE, "smooth"),
       createHighlightByTextStep("p", TextResponse, "the response", 5000, FALSE) >>

\* an entry point with the two ids exchanged
SelectedSwapped(id) ==
    IF id = "2743" THEN "upgradeAndProductionKey"
    ELSE IF id = "4276" THEN "apiPlayground"
    ELSE "none"

\* an entry point that falls back to a walkthrough
SelectedAny(id) ==
    IF id = "2743" THEN "apiPlayground" ELSE "upgradeAndProductionKey"

\* the walkthrough the entry point's effect selects
Selected(id) ==
    IF id = "4276" THEN "upgradeAndProductionKey"
    ELSE IF id = "2743" THEN "apiPlayground"
    ELSE "none"

Script(name) ==
    IF name = "upgradeAndProductionKey" THEN upgradeAndProductionKey
    ELSE apiPlayground

\* useEffect of SmartLink: the settle timer of the selected walkthrough
Mount ==
    /\ pc = "module"
    /\ IF Selected(smartLinkId) # "none"
       THEN /\ timers' = Append(timers, Timer(now, "entry", EntrySettle, 0, 0))
            /\ pc' = "settle"
       ELSE /\ pc' = "idle"
            /\ UNCHANGED timers
    /\ UNCHANGED <<host, call, present, marked, value, focused, decos, now, i,
                   startTime, el, ti, events, envLeft>>

\* the settle timer fires: the walkthrough calls sequentialHighlights(steps, 500)
EntryTimer ==
    /\ Due("entry")
    /\ now' = FireTime
    /\ timers' = OtherTimers
    /\ walkthrough' = Selected(smartLinkId)
    /\ steps' = Script(Selected(smartLinkId))
    /\ defaultDelay' = WalkthroughDelay
    /\ i' = 1
    /\ pc' = "for"
    /\ UNCHANGED <<host, present, marked, value, focused, decos, startTime, el,
                   ti, events, envLeft>>

\* await of the walkthrough returns: 'Walkthrough completed successfully'
EntrySuccess ==
    /\ pc = "done"
    /\ walkthrough # "none"
    /\ pc' = "finished"
    /\ events' = Log("success", Null)
    /\ UNCHANGED <<host, call, present, marked, value, focused, decos, timers,
                   now, i, startTime, el, ti, envLeft>>

\* a DOM call of the running step's lookup throws: nothing in the step, in
\* sequentialHighlights or in the walkthrough catches, so their promises
\* reject
LookupThrows ==
    /\ walkthrough # "none"
    /\ \/ pc = "hlPoll"
       \/ pc = "action" /\ Step.action.kind # "none"
    /\ pc' = "rejected"
    /\ events' = Log("throw", Null)
    /\ UNCHANGED <<host, call, present, marked, value, focused, decos, timers,
                   now, i, startTime, el, ti, envLeft>>

\* a handler that logs the success message after the try statement
EntryCatchThenSuccess ==
    /\ pc = "rejected"
    /\ pc' = "finished"
    /\ events' = events \o <<Event(i, "error", Null, now, <<>>),
                             Event(i, "success", Null, now, <<>>)>>
    /\ UNCHANGED <<host, call, present, marked, value, focused, decos, timers,
                   now, i, startTime, el, ti, envLeft>>

\* catch (error) { console.error('Error during walkthrough:', error) }
EntryCatch ==
    /\ pc = "rejected"
    /\ pc' = "caught"
    /\ events' = Log("error", Null)
    /\ UNCHANGED <<host, call, present, marked, value, focused, decos, timers,
                   now, i, startTime, el, ti, envLeft>>

\* the pages the entry point is loaded on: everything rendered, nothing
\* rendered, or one element missing
HostPresence ==
    { [e \in 1..Len(HostPage) |-> b] : b \in BOOLEAN }
    \cup { [e \in 1..Len(HostPage) |-> e # x] : x \in 1..Len(HostPage) }

InitEntry ==
    /\ page = HostPage
    /\ present \in HostPresence
    /\ marked = [e \in 1..Len(HostPage) |-> FALSE]
    /\ value = [e \in 1..Len(HostPage) |-> <<"z">>]
    /\ focused = Null
    /\ decos = <<>>
    /\ timers = <<>>
    /\ now = 0
    /\ steps = <<>>
    /\ defaultDelay = 0
    /\ i = 1
    /\ pc = "module"
    /\ startTime = 0
    /\ el = Null
    /\ ti = 1
    /\ events = <<>>
    /\ smartLinkId \in {Undef, "", "4276", "2743", "1234", "42760"}
    /\ walkthrough = "none"
    /\ lag \in {0, MaxLag}
    /\ envLeft = 0

NextEntry ==
    \/ Mount
    \/ EntryTimer
    \/ EntrySuccess
    \/ LookupThrows
    \/ EntryCatch
    \/ Steps

SpecEntry == InitEntry /\ [][NextEntry]_vars

----------------------------------------------------------------------------
(* findElementByText called on a drawn document *)

FindTags == {"p", "span"}

FindTexts == {<<>>, <<"a">>, <<"a", "b">>, <<"b", "a">>}

\* the documents: up to MaxElems elements, each of a tag and with a text
FindPages ==
    UNION { [1..n -> [tag : FindTags, sels : {{}}, text : FindTexts]] :
                n \in 0..MaxElems }

InitFind ==
    /\ page \in FindPages
    /\ present = [e \in 1..Len(page) |-> TRUE]
    /\ marked = [e \in 1..Len(page) |-> FALSE]
    /\ value = [e \in 1..Len(page) |-> <<"z">>]
    /\ focused = Null
    /\ decos = <<>>
    /\ timers = <<>>
    /\ now = 0
    /\ \E tagName \in FindTags, text \in FindTexts, exactMatch \in BOOLEAN :
           steps = <<createClickByTextStep(tagName, text, exactMatch, FALSE, 0)>>
    /\ defaultDelay = 0
    /\ i = 1
    /\ pc = "find"
    /\ startTime = 0
    /\ el = Null
    /\ ti = 1
    /\ events = <<>>
    /\ smartLinkId = Undef
    /\ walkthrough = "none"
    /\ lag = 0
    /\ envLeft = 0

\* const element = findElementByText(tagName, text, exactMatch)
FindCall ==
    /\ pc = "find"
    /\ el' = findElementByText(Step.action.tagName, Step.action.text,
                               Step.action.exactMatch)
    /\ pc' = "found"
    /\ UNCHANGED <<host, call, present, marked, value, focused, decos, timers,
                   now, i, startTime, ti, events, envLeft>>

NextFind == FindCall

SpecFind == InitFind /\ [][NextFind]_vars

----------------------------------------------------------------------------
(* Properties *)

Logged(n, kind) ==
    \E k \in 1..Len(events) : events[k].step = n /\ events[k].kind = kind

\* step n reported a lookup that failed or an element of the wrong type
Failed(n) == Logged(n, "notFound") \/ Logged(n, "wrongType")

\* event k is the completion of decoration d's highlight promise
Completes(k, d) ==
    /\ events[k].step = decos[d].step
    /\ events[k].kind = IF decos[d].via = "selector" THEN "highlighted"
                        ELSE "highlightedText"

Completed(d) == \E k \in 1..Len(events) : Completes(k, d)

\* no later decoration was put on decoration d's element
Latest(d) ==
    \A d2 \in 1..Len(decos) : d2 > d => decos[d2].target # decos[d].target

\* C1: the steps run strictly in declaration order: the side effects of the
\* steps never interleave, step N+1 begins only right after step N has ended
\* (highlight promise resolved, action promise settled, delay elapsed), and
\* no timer of an earlier step is pending when a step begins.
C1_DeclarationOrder ==
    /\ \A k \in 1..(Len(events) - 1) : events[k].step <= events[k + 1].step
    /\ \A k \in 1..Len(events) :
           events[k].kind = "begin" /\ events[k].step > 1
               => /\ k > 1
                  /\ events[k - 1].kind = "end"
                  /\ events[k - 1].step = events[k].step - 1
    /\ \A k \in 1..Len(timers) : timers[k].kind # "entry" => timers[k].step = i
    /\ pc = "for" => timers = <<>>

C1_Witness ==
    /\ pc = "done"
    /\ Len(steps) = 2
    /\ Logged(1, "undecorate")
    /\ Logged(1, "highlighted")
    /\ Logged(2, "input")

\* C2: there is no early exit: a step whose highlight or action reports a
\* failure still ends and the next step still begins, the program can always
\* take its next step until the list is exhausted, and the promise resolves
\* only when every step has begun and ended.
C2_NoEarlyExit ==
    /\ pc = "done"
           => /\ i = Len(steps) + 1
              /\ \A n \in 1..Len(steps) : Logged(n, "begin") /\ Logged(n, "end")
    /\ \A n \in 1..Len(steps) :
           Failed(n) /\ i > n
               => /\ Logged(n, "end")
                  /\ (n < Len(steps) /\ (i > n + 1 \/ pc # "for"))
                         => Logged(n + 1, "begin")
    /\ pc # "done" => ENABLED Steps

C2_Witness ==
    /\ pc = "done"
    /\ Len(steps) = 2
    /\ Failed(1)
    /\ Logged(2, "click")

\* C3: a highlight with a duration D > 0 whose element was found completes
\* no earlier than D + 100 ms (selector step) or D ms (highlight-by-text
\* action) after the decoration was put up, also when a click removed the
\* decoration before; and the step does not end without that completion.
C3_BlocksForDuration ==
    \A d \in 1..Len(decos) :
        decos[d].dur > 0
            => /\ \A k \in 1..Len(events) :
                      Completes(k, d)
                          => events[k].at - decos[d].at >=
                                 decos[d].dur + (IF decos[d].via = "selector"
                                                 THEN CompletionBuffer ELSE 0)
               /\ Logged(decos[d].step, "end") => Completed(d)

C3_Witness ==
    \E d \in 1..Len(decos) :
        /\ decos[d].dur > 0
        /\ decos[d].via = "selector"
        /\ decos[d].removedBy = "click"
        /\ Completed(d)

\* C4: once the sequencer has proceeded past a highlight with a duration
\* D > 0, that decoration's popup is detached, and its element does not carry
\* the marker class unless a later decoration was put on the same element.
C4_DecorationGone ==
    \A d \in 1..Len(decos) :
        decos[d].dur > 0 /\ Completed(d)
            => /\ ~decos[d].attached
               /\ Latest(d) => ~marked[decos[d].target]

C4_Witness ==
    \E d \in 1..Len(decos) :
        /\ decos[d].dur > 0
        /\ Completed(d)
        /\ decos[d].removedBy = "timer"
        /\ ~decos[d].again
        /\ pc = "action"

\* event k reports the failure of a polling lookup, begun at event k - 1
PollFailed(k) ==
    /\ k > 1
    /\ events[k].kind = "notFound"
    /\ events[k - 1].kind = "lookup"
    /\ events[k - 1].step = events[k].step
    /\ events[k - 1].data # <<>>

\* the window W of that lookup, and the time it took
Window(k) == events[k - 1].data[1]

Elapsed(k) == events[k].at - events[k - 1].at

\* C5 as stated: a polling lookup whose target never appears reports
\* not-found no earlier than W ms and no later than W + 100 ms after it began.
C5_WithinOneInterval ==
    \A k \in 1..Len(events) :
        PollFailed(k)
            => /\ Elapsed(k) >= Window(k)
               /\ Elapsed(k) <= Window(k) + PollInterval

\* C5: a polling lookup whose target never appears reports not-found no
\* earlier than W ms after it began, and no later than W + 100 ms plus the
\* time by which the event loop runs a polling timer late: within W + 100 ms
\* only when every polling timer fires at its due time.
C5_NotBeforeWindow ==
    \A k \in 1..Len(events) :
        PollFailed(k)
            => /\ Elapsed(k) >= Window(k)
               /\ Elapsed(k) <= Window(k) + PollInterval + lag

C5_Witness ==
    \E k \in 1..Len(events) :
        /\ PollFailed(k)
        /\ lag = 0
        /\ Window(k) < Elapsed(k)

\* the events of step n of the given kind
Count(n, kind) ==
    Cardinality({k \in 1..Len(events) :
                     events[k].step = n /\ events[k].kind = kind})

\* C6: typing V of length N into an input or textarea with clearExisting:
\* after the focus come exactly N input events, the j-th with the value
\* holding the first j characters of V, then exactly one change event, and
\* the value is V when the promise resolves.
C6_TypesEachCharacter ==
    \A k \in 1..Len(events) :
        LET n == events[k].step
            V == steps[n].action.text
            N == Len(V)
        IN  events[k].kind = "change" /\ steps[n].action.clearExisting
                => /\ k > N + 1
                   /\ events[k - N - 1].kind = "focus"
                   /\ \A j \in 1..N :
                          /\ events[k - N - 1 + j].kind = "input"
                          /\ events[k - N - 1 + j].el = events[k].el
                          /\ events[k - N - 1 + j].data = SubSeq(V, 1, j)
                   /\ events[k].data = V
                   /\ Count(n, "input") = N
                   /\ Count(n, "change") = 1
                   /\ IsTextInput(events[k].el)

C6_Witness ==
    \E k \in 1..Len(events) :
        /\ events[k].kind = "change"
        /\ steps[events[k].step].action.clearExisting
        /\ Len(steps[events[k].step].action.text) = 2
        /\ pc = "done"

C8_NotFoundIsNoOp ==
    \A k \in 1..Len(events) :
        events[k].kind = "notFound"
            => /\ k > 1
               /\ events[k - 1].kind = "lookup"
               /\ events[k - 1].step = events[k].step
               /\ k < Len(events)
                      => /\ events[k + 1].kind \in {"end", "lookup"}
                         /\ events[k + 1].step = events[k].step
               /\ pc = "done"
                      => \A n \in 1..Len(steps) :
                             n > events[k].step => Logged(n, "end")

C8_Witness ==
    /\ pc = "done"
    /\ Len(steps) = 2
    /\ Logged(1, "notFound")
    /\ Logged(2, "decorate")
    /\ Logged(2, "highlighted")

\* element e is what a selector and text, or a tag and text, address
Addressed(e, a) ==
    IF a.kind \in {"clickByText", "highlightByText", "scrollToText"}
    THEN page[e].tag = a.tagName /\ TextMatches(e, a.text, a.exactMatch)
    ELSE a.selector \in page[e].sels

\* the side effect logged as event k is one the step it belongs to declares
Declared(k) ==
    LET st == steps[events[k].step]
        e == events[k].el
    IN  CASE events[k].kind = "decorate" ->
                 \/ IsHighlight(st) /\ st.selector \in page[e].sels
                 \/ st.action.kind = "highlightByText" /\ Addressed(e, st.action)
          [] events[k].kind = "click" ->
                 st.action.kind \in {"click", "clickByText"} /\ Addressed(e, st.action)
          [] events[k].kind = "scroll" ->
                 st.action.kind \in {"scrollTo", "scrollToText"} /\ Addressed(e, st.action)
          [] events[k].kind \in {"focus", "input", "change"} ->
                 st.action.kind = "typeText" /\ Addressed(e, st.action)
          [] OTHER -> TRUE

\* C9: with smartlink=4276 nothing runs but upgradeAndProductionKey: its 10
\* steps begin in declared order, each right after the one before has ended,
\* every side effect is the one its step declares, and the walkthrough's
\* promise resolves (the success message is logged) only right after step 10
\* has ended.
C9_UpgradeWalkthrough ==
    smartLinkId = "4276"
        => /\ walkthrough \in {"none", "upgradeAndProductionKey"}
           /\ walkthrough = "none" => events = <<>> /\ decos = <<>>
           /\ walkthrough # "none"
                  => /\ steps = upgradeAndProductionKey
                     /\ Len(steps) = 10
                     /\ defaultDelay = WalkthroughDelay
           /\ \A k \in 1..Len(events) :
                  /\ Declared(k)
                  /\ events[k].kind = "begin"
                         => IF k = 1 THEN events[k].step = 1
                            ELSE /\ events[k - 1].kind = "end"
                                 /\ events[k - 1].step = events[k].step - 1
                  /\ events[k].kind = "success"
                         => /\ k > 2
                            /\ events[k - 1].kind = "resolve"
                            /\ events[k - 2].kind = "end"
                            /\ events[k - 2].step = 10
                            /\ \A n \in 1..10 : Logged(n, "begin")
           /\ pc = "finished" => events[Len(events)].kind = "success"

C9_Witness ==
    /\ smartLinkId = "4276"
    /\ pc = "finished"
    /\ \A n \in 1..10 : Logged(n, "end") /\ ~Failed(n)
    /\ Count(9, "decorate") = 1
    /\ Count(10, "click") = 1

\* C10 as stated: with smartlink=2743 the type-text step of apiPlayground
\* produces 19 input events and 1 change event for a 19-character string.
C10_NineteenInputs ==
    smartLinkId = "2743"
        => \A k \in 1..Len(events) :
               events[k].kind = "change"
                   => /\ Count(events[k].step, "input") = 19
                      /\ Count(events[k].step, "change") = 1
                      /\ Len(events[k].data) = 19

\* C10: with smartlink=2743 nothing runs but apiPlayground, and its type-text
\* step types "What is the capital of France?", which has 30 characters, into
\* the text area: 30 input events, then 1 change event, the value of the
\* field being exactly that string.
C10_TypesTheQuestion ==
    smartLinkId = "2743"
        => /\ walkthrough \in {"none", "apiPlayground"}
           /\ walkthrough # "none" => steps = apiPlayground
           /\ \A k \in 1..Len(events) :
                  /\ events[k].kind \in {"focus", "input", "change"}
                         => /\ page[events[k].el].tag = "textarea"
                            /\ steps[events[k].step].action.text = TypedQuestion
                  /\ events[k].kind = "change"
                         => /\ Count(events[k].step, "input") = 30
                            /\ Count(events[k].step, "change") = 1
                            /\ events[k].data = TypedQuestion
                            /\ Len(events[k].data) = 30
                            /\ value[events[k].el] = TypedQuestion
                            /\ events[k - 1].kind = "input"

C10_Witness ==
    /\ smartLinkId = "2743"
    /\ pc = "finished"
    /\ \E k \in 1..Len(events) :
           /\ events[k].kind = "change"
           /\ Count(events[k].step, "input") = 30
           /\ value[events[k].el] = TypedQuestion

\* C11: when the smartlink parameter is absent or is anything but 4276 and
\* 2743, no walkthrough is ever started: no step runs, no timer is scheduled,
\* and the document receives no decoration, click, typed text or scroll.
C11_NoWalkthrough ==
    smartLinkId \notin {"4276", "2743"}
        => /\ walkthrough = "none"
           /\ pc \in {"module", "idle"}
           /\ steps = <<>>
           /\ events = <<>>
           /\ timers = <<>>
           /\ decos = <<>>
           /\ focused = Null
           /\ \A e \in Elements : ~marked[e] /\ value[e] = <<"z">>

C11_Witness ==
    /\ smartLinkId = "42760"
    /\ pc = "idle"

\* C12: between the end of a step and the beginning of the next lies the
\* step's delayAfter when it is defined (no wait at all for an explicit 0)
\* and the defaultDelay otherwise, to the lateness of the timer; the promise
\* resolves at the end of the last step, with no delay.
C12_InterStepDelay ==
    \A k \in 2..Len(events) :
        /\ events[k].kind = "begin"
               => LET after == steps[events[k].step - 1].delayAfter
                      D == IF after = UndefNum THEN defaultDelay ELSE after
                      gap == events[k].at - events[k - 1].at
                  IN  /\ events[k - 1].kind = "end"
                      /\ events[k - 1].step = events[k].step - 1
                      /\ gap >= D
                      /\ gap <= D + (IF D > 0 THEN lag ELSE 0)
        /\ events[k].kind = "resolve"
               => /\ events[k - 1].kind = "end"
                  /\ events[k - 1].step = Len(steps)
                  /\ events[k].at = events[k - 1].at

C12_Witness ==
    /\ pc = "done"
    /\ Len(steps) = 2
    /\ defaultDelay = 500
    /\ steps[1].delayAfter = 0
    /\ steps[2].delayAfter = 200

\* the events of the given kind
Total(kind) == Cardinality({k \in 1..Len(events) : events[k].kind = kind})

\* C13: an error that escapes the step sequence is caught at the entry
\* point, once: it is logged right after it was thrown, nothing runs and
\* nothing is pending afterwards, it is never left unhandled, and the
\* success message is not logged.
C13_CaughtOnce ==
    /\ Total("throw") <= 1
    /\ Total("error") = (IF pc = "caught" THEN 1 ELSE 0)
    /\ Total("throw") = (IF pc \in {"rejected", "caught"} THEN 1 ELSE 0)
    /\ pc = "rejected" => ENABLED EntryCatch
    /\ Total("throw") = 1 => Total("success") = 0 /\ timers = <<>>
    /\ \A k \in 1..Len(events) :
           /\ events[k].kind = "throw"
                  => \A l \in 1..Len(events) : l > k => events[l].kind = "error"
           /\ events[k].kind = "error"
                  => k > 1 /\ events[k - 1].kind = "throw" /\ k = Len(events)

C13_Witness ==
    /\ pc = "caught"
    /\ Logged(3, "begin")
    /\ Logged(1, "highlighted")

\* the step kinds whose lookup is a polling loop
PollingKinds == {"click", "clickByText", "typeText", "scrollTo"}

\* a turn of a polling loop is taken at time t: with the window open, a
\* target that is in the document is found
TurnFinds(hl, t) ==
    LET q == IF hl THEN querySelector(Step.selector) ELSE Locate(Step.action)
        W == IF hl THEN HighlightMaxWait ELSE Step.action.maxWaitTime
    IN  IF q # Null /\ t - startTime' < W
        THEN el' = q /\ pc' = (IF hl THEN "hlApply" ELSE "actGot")
        ELSE el' = Null

\* a step of the program that is a turn of a polling loop
PollingTurn ==
    /\ pc = "hlPoll" /\ pc' # pc => TurnFinds(TRUE, now)
    /\ pc = "action" /\ pc' # pc /\ Step.action.kind \in PollingKinds
           /\ Step.action.waitForElement
           => TurnFinds(FALSE, now)
    /\ pc \in {"hlSleep", "actSleep"} /\ timers' # timers
           => TurnFinds(pc = "hlSleep", now')

\* highlight by text and scroll to text look up once, as the step begins
SingleLookup ==
    /\ \A k \in 1..Len(timers) :
           timers[k].kind = "poll" => pc \in {"hlSleep", "actSleep"}
    /\ pc = "actSleep"
           => Step.action.kind \in PollingKinds /\ Step.action.waitForElement
    /\ \A k \in 1..Len(events) :
           /\ events[k].kind = "notFound"
           /\ steps[events[k].step].action.kind \in {"highlightByText", "scrollToText"}
           /\ events[k - 1].data = <<>>
           => events[k].at = events[k - 1].at

\* C14 as stated: a step of any kind, highlight by text and scroll to text
\* included, reports not-found only after it has waited for its target.
C14_EveryKindWaits ==
    \A k \in 2..Len(events) :
        /\ events[k].kind = "notFound"
        /\ events[k - 1].kind = "lookup"
        /\ steps[events[k].step].action.kind \in {"highlightByText", "scrollToText"}
        => events[k].at > events[k - 1].at

\* C14: highlight by selector, click by selector, click by text, type text
\* and scroll to selector poll: at each turn of the loop, the first as the
\* step begins and then one after each sleep while the window is open, a
\* target that is in the document is found.  Highlight by text and scroll
\* to text do not poll: they look up once as the step begins and report
\* not-found at once.
C14_PollingKindsFind == [][PollingTurn]_vars /\ []SingleLookup

C14_Witness ==
    \E k \in 2..Len(events) :
        /\ events[k].kind \in {"click", "focus", "scroll", "decorate"}
        /\ events[k - 1].kind = "lookup"
        /\ events[k - 1].data # <<>>
        /\ events[k].at > events[k - 1].at
        /\ \E l \in 2..Len(events) :
               /\ events[l].kind = "notFound"
               /\ events[l - 1].data = <<>>
               /\ steps[events[l].step].action.kind = "highlightByText"

C16_StaysUntilClicked ==
    \A d \in 1..Len(decos) :
        decos[d].dur = 0
            => /\ \A k \in 1..Len(timers) : timers[k].deco # d
               /\ \A k \in 1..(Len(events) - 1) :
                      /\ events[k].kind = "decorate"
                      /\ events[k].step = decos[d].step
                      /\ events[k].el = decos[d].target
                      => events[k + 1].at = events[k].at
               /\ decos[d].clicksOn = 0
                      => decos[d].attached /\ marked[decos[d].target]

\* C17: when the element a type-text step locates is neither an input nor a
\* textarea, the step reports it right after the lookup and does nothing
\* else: no element of another tag is ever focused, has its value changed or
\* receives an input or change event; and the later steps still run.
C17_WrongElementType ==
    /\ \A e \in Elements :
           page[e].tag \notin {"input", "textarea"}
               => /\ focused # e
                  /\ value[e] = <<"z">>
                  /\ \A k \in 1..Len(events) :
                         events[k].el = e
                             => events[k].kind \notin {"focus", "input", "change"}
    /\ \A k \in 1..Len(events) :
           events[k].kind = "wrongType"
               => /\ page[events[k].el].tag \notin {"input", "textarea"}
                  /\ steps[events[k].step].action.kind = "typeText"
                  /\ k > 1
                  /\ events[k - 1].kind = "lookup"
                  /\ events[k - 1].step = events[k].step
                  /\ k < Len(events)
                         => /\ events[k + 1].kind = "end"
                            /\ events[k + 1].step = events[k].step
                  /\ pc = "done"
                         => \A n \in 1..Len(steps) :
                                n > events[k].step => Logged(n, "end")

C17_Witness ==
    /\ pc = "done"
    /\ Len(steps) = 2
    /\ Logged(1, "wrongType")
    /\ Logged(2, "change")

\* needle occurs in hay
Contains(hay, needle) ==
    \E a, b \in 0..Len(hay) : a <= b /\ SubSeq(hay, a + 1, b) = needle

\* the elements of the searched tag whose text equals the searched text
\* (exact mode) or contains it (substring mode)
FindMatches ==
    LET a == steps[1].action
    IN  {e \in 1..Len(page) :
             /\ page[e].tag = a.tagName
             /\ IF a.exactMatch THEN page[e].text = a.text
                ELSE Contains(page[e].text, a.text)}

\* C18: findElementByText returns the first element in document order of
\* the given tag whose text equals the search text (exact mode) or contains
\* it (substring mode), and null exactly when no element of the tag matches.
C18_FirstMatch ==
    pc = "found"
        => /\ el = Null <=> FindMatches = {}
           /\ el # Null => el \in FindMatches /\ \A f \in FindMatches : el <= f

C18_Witness ==
    /\ pc = "found"
    /\ ~steps[1].action.exactMatch
    /\ el = 2
    /\ 3 \in FindMatches
    /\ page[1].tag = steps[1].action.tagName
    /\ page[2].text # steps[1].action.text

\* step n carries both a highlight and an action
Both(n) == IsHighlight(steps[n]) /\ steps[n].action.kind # "none"

\* C19: a step with both a highlight and an action runs both within the one
\* step: the action's lookup comes right after the highlight has settled
\* (failed, or completed its wait of D + 100 ms), the action's effect after
\* that, and the step ends once, with one inter-step delay.
C19_HighlightThenAction ==
    \A n \in 1..Len(steps) :
        Both(n)
            => /\ Count(n, "begin") <= 1
               /\ Count(n, "end") <= 1
               /\ Count(n, "lookup") <= 2
               /\ Logged(n, "end") => Count(n, "lookup") = 2
               /\ \A k, l \in 1..Len(events) :
                      /\ events[k].step = n /\ events[l].step = n
                      /\ events[k].kind = "lookup" /\ events[l].kind = "lookup"
                      /\ k < l
                      => /\ events[l - 1].step = n
                         /\ events[l - 1].kind \in
                                IF DurationOf(steps[n]) > 0
                                THEN {"highlighted", "notFound"}
                                ELSE {"decorate", "notFound"}
                         /\ events[l - 1].at = events[l].at
                         /\ events[k + 1].kind = "decorate"
                                => events[l].at - events[k + 1].at >=
                                       DurationOf(steps[n]) + CompletionBuffer
                         /\ \A c \in 1..Len(events) :
                                events[c].step = n /\ events[c].kind = "click"
                                    => c > l
               /\ \A k \in 2..Len(events) :
                      events[k].kind = "begin" /\ events[k].step = n + 1
                          => events[k - 1].kind = "end"

C19_Witness ==
    /\ pc = "done"
    /\ Len(steps) = 2
    /\ Both(1)
    /\ Logged(1, "highlighted")
    /\ Logged(1, "click")
    /\ Logged(2, "begin")

\* every highlight of the walkthrough, by selector or by text, has a
\* positive duration
AllTimed ==
    \A n \in 1..Len(steps) :
        /\ IsHighlight(steps[n]) => DurationOf(steps[n]) > 0
        /\ steps[n].action.kind = "highlightByText"
               => steps[n].action.durationMs > 0

Attached == {d \in 1..Len(decos) : decos[d].attached}

\* C20: in a walkthrough whose highlights all have a positive duration, at
\* most one popup is attached to the document at any time, whatever the
\* user clicks and whenever the host page renders.
C20_OnePopup ==
    AllTimed => Cardinality(Attached) <= 1

C20_Witness ==
    /\ AllTimed
    /\ Len(decos) = 2
    /\ decos[1].removedBy = "click"
    /\ decos[2].attached
    /\ decos[1].target = decos[2].target

\* C21: in every reachable state each attached popup's target element
\* carries the marker class: the class and the popup of a decoration are put
\* up together and taken down together, also when two steps decorate the
\* same element.
C21_PopupHasClass ==
    \A d \in 1..Len(decos) : decos[d].attached => marked[decos[d].target]

\* the first turn of a polling loop, taken as the lookup begins: a target
\* that is in the document is found, whatever the window
FirstTurnFinds ==
    /\ pc = "hlPoll" /\ pc' # pc /\ querySelector(Step.selector) # Null
           => el' = querySelector(Step.selector) /\ pc' = "hlApply"
    /\ pc = "action" /\ pc' # pc /\ Step.action.kind \in PollingKinds
           /\ Step.action.waitForElement /\ Locate(Step.action) # Null
           => el' = Locate(Step.action) /\ pc' = "actGot"

\* C22: a polling lookup queries the document at least once: an element that
\* is already in the document when the lookup begins is found, for every
\* value of maxWaitTime, 0 included.
C22_QueriesAtLeastOnce == [][FirstTurnFinds]_vars

\* C23: under a fair event loop sequentialHighlights eventually resolves, for
\* every step list built from the step creators and plain highlight steps,
\* whether or not the elements are ever found and whether or not the user
\* ever clicks: no step waits on a click or on an unbounded poll.
C23_EventuallyResolves == <>(Total("resolve") = 1)

C23_Witness ==
    /\ Total("resolve") = 1
    /\ Len(steps) = MaxSteps
    /\ envLeft = MaxEnv
    /\ \E n \in 1..Len(steps) : Failed(n)
    /\ \E d \in 1..Len(decos) : decos[d].dur = 0 /\ decos[d].attached

\* the timers that take a decoration down by themselves
RemovalKinds == {"remove", "hbt"}

\* a removal timer is pending only while the sequencer is parked in the step
\* that scheduled it
RemovalWithinStep ==
    \A k \in 1..Len(timers) :
        timers[k].kind \in RemovalKinds
            => timers[k].step = i /\ pc \in {"hlWait", "hbtWait"}

\* a decoration taken down by its timer was taken down before any later
\* step began, and before any later step decorated the same element
RemovedBeforeLater ==
    \A k \in 1..Len(events) :
        events[k].kind = "undecorate"
            => \A j \in 1..k :
                   /\ events[j].kind = "begin" => events[j].step <= events[k].step
                   /\ events[j].kind = "decorate" /\ events[j].el = events[k].el
                          => events[j].step <= events[k].step

\* C24: no removal timer scheduled by a highlight fires after the sequencer
\* has begun a later step, so the timer of an earlier step never strips the
\* marker class a later step applied to the same element; and no timer the
\* sequence scheduled is pending once sequentialHighlights has resolved.
C24_NoLateTimer ==
    /\ RemovalWithinStep
    /\ RemovedBeforeLater
    /\ Total("resolve") = 1 => timers = <<>>

C24_Witness ==
    /\ Total("resolve") = 1
    /\ timers = <<>>
    /\ \E d, d2 \in 1..Len(decos) :
           /\ decos[d].step < decos[d2].step
           /\ decos[d].target = decos[d2].target
           /\ decos[d].removedBy = "timer"
           /\ decos[d2].removedBy = "timer"
           /\ decos[d].via # decos[d2].via

====
